---- MODULE Spec2Model ----
(***************************************************************************)
(* Model of the PANDA-BEAR Arduino controller firmware                     *)
(* (src/hardware/arduino/pawduino_v2/pawduino_v2.cpp): the serial command  *)
(* dispatcher of loop() and the pipette homing / move / aspirate /         *)
(* dispense state machine.                                                 *)
(*                                                                         *)
(* Representation choices                                                  *)
(*  - float values (pipettePosition, pipetteVolume, payloads) are          *)
(*    fixed-point integers in units of 1/FloatScale; the arithmetic of     *)
(*    the handlers is exact on the payloads the host sends here (at most   *)
(*    three decimals), binary rounding of IEEE floats is not modelled.     *)
(*  - the serial receive buffer is a sequence of one-character strings;    *)
(*    Serial.parseInt / Serial.parseFloat are computed character by        *)
(*    character as the Arduino Stream class does; running out of buffered  *)
(*    characters inside a parse is the parse's timeout.                    *)
(*  - the AccelStepper driver is its current position, its target and      *)
(*    whether it is in motion; a batch of run() calls moves it part of     *)
(*    the way or onto the target.                                          *)
(***************************************************************************)
EXTENDS Integers, Sequences, FiniteSets, TLC

VARIABLES
    pipetteIsHomed,    \* bool pipetteIsHomed
    pipettePosition,   \* float pipettePosition (mm), fixed point
    pipetteVolume,     \* float pipetteVolume (uL), fixed point
    stepperPos,        \* pipetteStepper.currentPosition() (steps)
    stepperTarget,     \* pipetteStepper.targetPosition() (steps)
    stepperMoving,     \* pipetteStepper speed # 0
    stepperMaxSpeed,   \* pipetteStepper max speed (steps/s)
    limitState,        \* pipetteLimitSwitch.getState(), debounced
    emagPin,           \* level of pin EMAG
    lineBreakLed,      \* level of pin LINEBREAKLED
    dots,              \* stored red channel of pixel 0 of dot_1 / dot_2
    ring,              \* pixel ring: [marks |-> pixels 6 and 18, rest |-> the others]
    sensorState,       \* int sensorState
    lastState,         \* int lastState
    rx,                \* serial receive buffer (characters)
    out,               \* lines printed by the command being / last serviced
    pc,                \* where the firmware is
    moveTarget,        \* parameter `position` of the movePipetteToPosition in progress
    cur,               \* the command being / last serviced, and the state it started from
    prev,              \* the command serviced before cur
    sent               \* number of messages the host has sent

vars == <<pipetteIsHomed, pipettePosition, pipetteVolume, stepperPos, stepperTarget,
          stepperMoving, stepperMaxSpeed, limitState, emagPin, lineBreakLed, dots, ring,
          sensorState, lastState, rx, out, pc, moveTarget, cur, prev, sent>>

(***************************************************************************)
(* Bounds of the model.                                                    *)
(***************************************************************************)
\* messages an unconstrained host sends (specification Spec)
MaxMsgs == 2
\* commands a host that follows the request/response protocol sends (SpecPipette)
MaxCmds == 5
\* messages the host sends to the firmware checked for progress (SpecLive)
MaxLiveMsgs == 2
\* steps the actuator can travel towards the limit switch in one homing approach
MaxHomeSteps == 2

(***************************************************************************)
(* Program constants.                                                      *)
(***************************************************************************)
\* fixed-point scale of the float values: 1 mm = 1 uL = FloatScale units
FloatScale == 10000
PIPETTE_MAX_POSITION == 100
PIPETTE_STEPS_PER_MM == 200
PIPETTE_MAX_SPEED == 10000
PIPETTE_HOMING_SPEED == 2000
NEO_BRIGHTNESS == 500
LINE_TEST_CYCLES == 10

CMD_WHITE_ON == 1
CMD_WHITE_OFF == 2
CMD_CONTACT_ON == 3
CMD_CONTACT_OFF == 4
CMD_EMAG_ON == 5
CMD_EMAG_OFF == 6
CMD_LINE_BREAK == 7
CMD_LINE_TEST == 8
CMD_PIPETTE_HOME == 9
CMD_PIPETTE_MOVE == 10
CMD_PIPETTE_ASPIRATE == 11
CMD_PIPETTE_DISPENSE == 12
CMD_PIPETTE_STATUS == 13
CMD_HELLO == 99

RESP_WHITE_ON == 101
RESP_WHITE_OFF == 102
RESP_CONTACT_ON == 103
RESP_CONTACT_OFF == 104
RESP_EMAG_ON == 105
RESP_EMAG_OFF == 106
RESP_PIPETTE_HOMED == 109
RESP_PIPETTE_MOVED == 110
RESP_PIPETTE_ASPIRATED == 111
RESP_PIPETTE_DISPENSED == 112
RESP_PIPETTE_STATUS == 113

RecognizedCodes == (1..13) \cup {CMD_HELLO}

Abs(x) == IF x < 0 THEN -x ELSE x

\* PIPETTE_MAX_POSITION as a fixed-point float
MaxPositionF == PIPETTE_MAX_POSITION * FloatScale

(***************************************************************************)
(* Stream::parseInt / Stream::parseFloat (default SKIP_ALL lookahead).     *)
(***************************************************************************)
DigitChars == <<"0", "1", "2", "3", "4", "5", "6", "7", "8", "9">>

IsDigit(c) == \E i \in 1..10 : DigitChars[i] = c

DigitVal(c) == (CHOOSE i \in 1..10 : DigitChars[i] = c) - 1

\* peekNextDigit: discard characters until '-', a digit or (for floats) '.';
\* an empty result is the timeout
RECURSIVE SkipToNumeric(_, _)
SkipToNumeric(buf, detectDecimal) ==
    IF buf = <<>> THEN <<>>
    ELSE IF Head(buf) = "-" \/ IsDigit(Head(buf)) \/ (detectDecimal /\ Head(buf) = ".")
         THEN buf
         ELSE SkipToNumeric(Tail(buf), detectDecimal)

\* the do-while loop of parseInt, after its first character: digits only
RECURSIVE ReadIntDigits(_, _)
ReadIntDigits(buf, value) ==
    IF buf # <<>> /\ IsDigit(Head(buf))
    THEN ReadIntDigits(Tail(buf), value * 10 + DigitVal(Head(buf)))
    ELSE [value |-> value, rest |-> buf]

\* Serial.parseInt(): [value, rest of the buffer]
ParseInt(buf) ==
    LET b == SkipToNumeric(buf, FALSE) IN
    IF b = <<>> THEN [value |-> 0, rest |-> <<>>]
    ELSE LET neg == Head(b) = "-"
             r == ReadIntDigits(Tail(b), IF neg THEN 0 ELSE DigitVal(Head(b)))
         IN [value |-> IF neg THEN -r.value ELSE r.value, rest |-> r.rest]

\* the do-while loop of parseFloat, after its first character: digits, and one '.'
RECURSIVE ReadFloatDigits(_, _, _, _)
ReadFloatDigits(buf, value, isFraction, decimals) ==
    IF buf # <<>> /\ IsDigit(Head(buf))
    THEN ReadFloatDigits(Tail(buf), value * 10 + DigitVal(Head(buf)), isFraction,
                         IF isFraction THEN decimals + 1 ELSE decimals)
    ELSE IF buf # <<>> /\ Head(buf) = "." /\ ~isFraction
         THEN ReadFloatDigits(Tail(buf), value, TRUE, decimals)
         ELSE [value |-> value, decimals |-> decimals, rest |-> buf]

RECURSIVE Pow10(_)
Pow10(n) == IF n = 0 THEN 1 ELSE 10 * Pow10(n - 1)

\* Serial.parseFloat(): [value as a fixed-point float, rest of the buffer]
ParseFloat(buf) ==
    LET b == SkipToNumeric(buf, TRUE) IN
    IF b = <<>> THEN [value |-> 0, rest |-> <<>>]
    ELSE LET neg == Head(b) = "-"
             dot == Head(b) = "."
             r == ReadFloatDigits(Tail(b), IF neg \/ dot THEN 0 ELSE DigitVal(Head(b)),
                                  dot, 0)
             mag == (r.value * FloatScale) \div Pow10(r.decimals)
         IN [value |-> IF neg THEN -mag ELSE mag, rest |-> r.rest]

(***************************************************************************)
(* Output formatting.                                                      *)
(***************************************************************************)
\* Print::print(float, 2): round half up on the magnitude, two decimals
PrintFloat2(x) ==
    LET h == (Abs(x) + FloatScale \div 200) \div (FloatScale \div 100)
        frac == h % 100
    IN (IF x < 0 THEN "-" ELSE "") \o ToString(h \div 100) \o "."
       \o (IF frac < 10 THEN "0" ELSE "") \o ToString(frac)

\* sendResponse(code, success)
ResponseLine(code, success) == (IF success THEN "OK:" ELSE "ERR:") \o ToString(code)

\* a status report that fails while the pipette is not homed
StatusLinesHomedOnly(homed, position, volume) ==
    IF homed
    THEN << "STATUS:1," \o PrintFloat2(position) \o "," \o PrintFloat2(volume),
            ResponseLine(RESP_PIPETTE_STATUS, TRUE) >>
    ELSE << ResponseLine(RESP_PIPETTE_STATUS, FALSE) >>

\* the lines getPipetteStatus prints
StatusLines(homed, position, volume) ==
    << "STATUS:" \o (IF homed THEN "1," ELSE "0,") \o PrintFloat2(position) \o ","
         \o PrintFloat2(volume),
       ResponseLine(RESP_PIPETTE_STATUS, TRUE) >>

(***************************************************************************)
(* Adafruit_NeoPixel brightness scaling (setBrightness / setPixelColor /   *)
(* getPixelColor) of one 8-bit colour channel.                             *)
(***************************************************************************)
\* setBrightness(uint8_t b) stores b + 1 (8 bits)
NeoBrightness == ((NEO_BRIGHTNESS % 256) + 1) % 256

\* setPixelColor: the channel value kept in RAM
NeoStore(c) == IF NeoBrightness # 0 THEN (c * NeoBrightness) \div 256 ELSE c

\* getPixelColor: the channel value reported back
NeoRead(s) == IF NeoBrightness # 0 THEN (s * 256) \div NeoBrightness ELSE s

\* a verification that does not read the pixel back
verifyNeoPixelStateUnread(stored, red) == TRUE

\* verifyNeoPixelState(pixels, 0, Color(red, 0, 0)) on a stored red channel
verifyNeoPixelState(stored, red) == NeoRead(stored) = red

\* verifyPinState(pin, expectedState): digitalRead of the output pin
verifyPinState(level, expectedState) == level = expectedState

(***************************************************************************)
(* Pipette operations: the checks made before any motion.                  *)
(***************************************************************************)
\* a conversion that rounds to the nearest step
MmToStepsRounded(position) ==
    IF position >= 0
    THEN (position * PIPETTE_STEPS_PER_MM + FloatScale \div 2) \div FloatScale
    ELSE -(((-position) * PIPETTE_STEPS_PER_MM + FloatScale \div 2) \div FloatScale)

\* long targetSteps = position * PIPETTE_STEPS_PER_MM (truncated)
MmToSteps(position) ==
    IF position >= 0 THEN (position * PIPETTE_STEPS_PER_MM) \div FloatScale
    ELSE -(((-position) * PIPETTE_STEPS_PER_MM) \div FloatScale)

\* volume / 10.0 (1 mm = 10 uL)
VolumeToMm(volume) ==
    IF volume >= 0 THEN volume \div 10 ELSE -((-volume) \div 10)

\* movePipetteToPosition without its homed check
MoveErrorNoHomedCheck(homed, position) ==
    IF position < 0 \/ position > MaxPositionF THEN "ERROR: Position out of bounds"
    ELSE ""

\* movePipetteToPosition without the lower bound of its bounds check
MoveErrorNoLowerBound(homed, position) ==
    IF ~homed THEN "ERROR: Pipette not homed"
    ELSE IF position > MaxPositionF THEN "ERROR: Position out of bounds"
    ELSE ""

\* movePipetteToPosition with the upper bound of its bounds check made strict
MoveErrorStrictUpper(homed, position) ==
    IF ~homed THEN "ERROR: Pipette not homed"
    ELSE IF position < 0 \/ position >= MaxPositionF THEN "ERROR: Position out of bounds"
    ELSE ""

\* movePipetteToPosition: the diagnostic of its early return, "" when it moves
MoveError(homed, position) ==
    IF ~homed THEN "ERROR: Pipette not homed"
    ELSE IF position < 0 \/ position > MaxPositionF THEN "ERROR: Position out of bounds"
    ELSE ""

\* aspiratePipette: float targetPosition
AspirateTarget(position, volume) == position + VolumeToMm(volume)

\* aspiratePipette: the diagnostic of its early return, or of the move's
AspirateError(homed, position, volume) ==
    IF ~homed THEN "ERROR: Pipette not homed"
    ELSE IF AspirateTarget(position, volume) > MaxPositionF
         THEN "ERROR: Requested volume exceeds pipette capacity"
    ELSE MoveError(homed, AspirateTarget(position, volume))

\* dispensePipette: float targetPosition
DispenseTarget(position, volume) == position - VolumeToMm(volume)

\* dispensePipette without its check of the volume held
DispenseErrorNoVolumeCheck(homed, position, held, volume) ==
    IF ~homed THEN "ERROR: Pipette not homed"
    ELSE IF DispenseTarget(position, volume) < 0
         THEN "ERROR: Dispense would exceed minimum position"
    ELSE MoveError(homed, DispenseTarget(position, volume))

\* dispensePipette: the diagnostic of its early return, or of the move's
DispenseError(homed, position, held, volume) ==
    IF ~homed THEN "ERROR: Pipette not homed"
    ELSE IF volume > held THEN "ERROR: Not enough volume in pipette"
    ELSE IF DispenseTarget(position, volume) < 0
         THEN "ERROR: Dispense would exceed minimum position"
    ELSE MoveError(homed, DispenseTarget(position, volume))

\* an aspirate that books the volume of the stroke instead of adding it
AspirateVolumeSet(held, volume) == volume

\* pipetteVolume after a successful aspirate / dispense
AspirateVolume(held, volume) == held + volume

DispenseVolume(held, volume) == held - volume

\* the response code the pipette commands hand to sendResponse
ResponseCode(command) ==
    CASE command = CMD_PIPETTE_MOVE -> RESP_PIPETTE_MOVED
      [] command = CMD_PIPETTE_ASPIRATE -> RESP_PIPETTE_ASPIRATED
      [] command = CMD_PIPETTE_DISPENSE -> RESP_PIPETTE_DISPENSED
      [] OTHER -> RESP_PIPETTE_HOMED

(***************************************************************************)
(* lineBreakTest: LINE_TEST_CYCLES readings of the beam sensor.            *)
(***************************************************************************)
\* the readings of one test: a first level and the cycle at which the beam changes
\* (LINE_TEST_CYCLES + 1: it does not change during the test)
Flip(level) == IF level = "LOW" THEN "HIGH" ELSE "LOW"

BeamReadings ==
    { [first |-> f, flipAt |-> k] : f \in {"LOW", "HIGH"}, k \in 2..(LINE_TEST_CYCLES + 1) }

ReadingAt(r, i) == IF i < r.flipAt THEN r.first ELSE Flip(r.first)

\* cycles i..LINE_TEST_CYCLES of the loop: [out, last]
RECURSIVE LineTestFrom(_, _, _, _)
LineTestFrom(i, r, last, lines) ==
    IF i > LINE_TEST_CYCLES THEN [out |-> lines, last |-> last]
    ELSE LET s == ReadingAt(r, i)
             l1 == Append(lines, IF s = "LOW" THEN "beam roken" ELSE "beam unbroken")
             l2 == IF s # last THEN Append(l1, IF s = "HIGH" THEN "108" ELSE "107") ELSE l1
         IN LineTestFrom(i + 1, r, s, l2)

(***************************************************************************)
(* State.                                                                  *)
(***************************************************************************)
pipetteVars == <<pipetteIsHomed, pipettePosition, pipetteVolume>>
stepperVars == <<stepperPos, stepperTarget, stepperMoving, stepperMaxSpeed>>
pixelVars == <<dots, ring>>
sensorVars == <<sensorState, lastState, lineBreakLed>>

\* PipetteState, the actuator and every output, as a command finds them
Snapshot ==
    [homed |-> pipetteIsHomed, pos |-> pipettePosition, vol |-> pipetteVolume,
     target |-> stepperTarget, steps |-> stepperPos, emag |-> emagPin,
     led |-> lineBreakLed, dots |-> dots, ring |-> ring]

\* the state after setup()
Init ==
    /\ pipetteIsHomed = FALSE
    /\ pipettePosition = 0
    /\ pipetteVolume = 0
    /\ stepperPos = 0
    /\ stepperTarget = 0
    /\ stepperMoving = FALSE
    /\ stepperMaxSpeed = PIPETTE_MAX_SPEED
    /\ limitState \in {"LOW", "HIGH"}
    /\ emagPin = "LOW"
    /\ sensorState \in {"LOW", "HIGH"}
    /\ lastState = sensorState
    /\ lineBreakLed = (IF sensorState = "LOW" THEN "HIGH" ELSE "LOW")
    /\ dots = [d1 |-> 0, d2 |-> 0]
    /\ ring = [marks |-> "off", rest |-> "off"]
    /\ rx = <<>>
    /\ out = <<>>
    /\ pc = "idle"
    /\ moveTarget = 0
    /\ cur = [any |-> FALSE, cmd |-> 0, arg |-> 0, ok |-> FALSE,
              s0 |-> [homed |-> FALSE, pos |-> 0, vol |-> 0, target |-> 0, steps |-> 0,
                      emag |-> "LOW", led |-> lineBreakLed, dots |-> dots, ring |-> ring]]
    /\ prev = [any |-> FALSE, cmd |-> 0, arg |-> 0, ok |-> FALSE, pos0 |-> 0, vol0 |-> 0]
    /\ sent = 0

(***************************************************************************)
(* The host.                                                               *)
(***************************************************************************)
CodeMsgs ==
    { <<"1", "\n">>, <<"2", "\n">>, <<"3", "\n">>, <<"4", "\n">>, <<"5", "\n">>,
      <<"6", "\n">>, <<"7", "\n">>, <<"8", "\n">>, <<"9", "\n">>, <<"1", "0", "\n">>,
      <<"1", "1", "\n">>, <<"1", "2", "\n">>, <<"1", "3", "\n">>, <<"9", "9", "\n">> }

PayloadMsgs ==
    { <<"-", "0", ".", "5", "\n">>, <<"2", ".", "5", "\n">>, <<"1", "0", "0", "\n">>,
      <<"6", "0", "0", "\n">> }

BlankMsgs == { <<"\n">> }

\* payloads finer than one step of the actuator (1 / PIPETTE_STEPS_PER_MM mm)
FinePayloadMsgs ==
    { <<"0", ".", "0", "0", "3", "\n">>, <<"2", ".", "5", "\n">> }

\* the contact dots, a Home, a Move, a Dispense, an out-of-range number and a
\* bare delimiter
LiveMsgs ==
    { <<"3", "\n">>, <<"9", "\n">>, <<"1", "0", "\n">>, <<"1", "2", "\n">>,
      <<"6", "0", "0", "\n">>, <<"\n">> }

PipetteMsgs ==
    { <<"9", "\n">>, <<"1", "0", "\n">>, <<"1", "1", "\n">>, <<"1", "2", "\n">>,
      <<"1", "3", "\n">> }

\* a host that sends any message at any time
HostSend ==
    /\ sent < MaxMsgs
    /\ \E m \in CodeMsgs \cup PayloadMsgs \cup BlankMsgs : rx' = rx \o m
    /\ sent' = sent + 1
    /\ UNCHANGED <<pipetteVars, stepperVars, limitState, emagPin, pixelVars, sensorVars,
                   out, pc, moveTarget, cur, prev>>

\* a host that sends a few messages at any time
HostSendLive ==
    /\ sent < MaxLiveMsgs
    /\ \E m \in LiveMsgs : rx' = rx \o m
    /\ sent' = sent + 1
    /\ UNCHANGED <<pipetteVars, stepperVars, limitState, emagPin, pixelVars, sensorVars,
                   out, pc, moveTarget, cur, prev>>

\* a host that follows the protocol: a pipette command code once the firmware is idle
HostCommand ==
    /\ sent < MaxCmds
    /\ pc = "idle"
    /\ rx = <<>>
    /\ \E m \in PipetteMsgs : rx' = rx \o m
    /\ sent' = sent + 1
    /\ UNCHANGED <<pipetteVars, stepperVars, limitState, emagPin, pixelVars, sensorVars,
                   out, pc, moveTarget, cur, prev>>

\* ... and the payload once the code was accepted
HostPayload ==
    /\ pc = "payload"
    /\ SkipToNumeric(rx, TRUE) = <<>>
    /\ \E m \in PayloadMsgs : rx' = rx \o m
    /\ UNCHANGED <<pipetteVars, stepperVars, limitState, emagPin, pixelVars, sensorVars,
                   out, pc, moveTarget, cur, prev, sent>>

\* ... or a payload finer than a step
HostFinePayload ==
    /\ pc = "payload"
    /\ SkipToNumeric(rx, TRUE) = <<>>
    /\ \E m \in FinePayloadMsgs : rx' = rx \o m
    /\ UNCHANGED <<pipetteVars, stepperVars, limitState, emagPin, pixelVars, sensorVars,
                   out, pc, moveTarget, cur, prev, sent>>

(***************************************************************************)
(* The firmware.                                                           *)
(***************************************************************************)
\* pipetteLimitSwitch.loop(): the debounced state follows the pin
LimitSwitchLoop == limitState' \in {"LOW", "HIGH"}

\* a default case that prints the code's own failure response
SentinelLinesTagged(command) == <<ResponseLine(ResponseCode(command), FALSE)>>

\* the default case of the switch: Serial.println(-1)
SentinelLines(command) == <<ToString(-1)>>

\* the record of the command the dispatcher has just read
StartCommand(command, ok) ==
    /\ cur' = [any |-> TRUE, cmd |-> command, arg |-> 0, ok |-> ok, s0 |-> Snapshot]
    /\ prev' = [any |-> cur.any, cmd |-> cur.cmd, arg |-> cur.arg, ok |-> cur.ok,
                pos0 |-> cur.s0.pos, vol0 |-> cur.s0.vol]

\* a pass that goes back to reading before the last line of the response is out
EndCommandBeforeResponse(lines) ==
    /\ out' = SubSeq(lines, 1, Len(lines) - 1)
    /\ rx' = <<>>
    /\ pc' = "idle"

\* a pass without the flush loop at its end
EndCommandNoFlush(lines) ==
    /\ out' = lines
    /\ rx' = rx
    /\ pc' = "idle"

\* a pass that halts the firmware after the sentinel of an unrecognized code
EndCommandHaltsOnError(lines) ==
    /\ out' = lines
    /\ rx' = <<>>
    /\ pc' = (IF lines = <<ToString(-1)>> THEN "halted" ELSE "idle")

\* the end of a pass of the while loop of loop(): the response is out, the
\* receive buffer is read empty
EndCommand(lines) ==
    /\ out' = lines
    /\ rx' = <<>>
    /\ pc' = "idle"

\* loop() with nothing to read: poll the limit switch, run the stepper
IdleLoop ==
    /\ pc = "idle"
    /\ LimitSwitchLoop
    /\ stepperPos' = (IF stepperPos = stepperTarget THEN stepperPos ELSE stepperTarget)
    /\ stepperMoving' = (IF stepperPos = stepperTarget THEN stepperMoving ELSE FALSE)
    /\ UNCHANGED <<pipetteVars, stepperTarget, stepperMaxSpeed, emagPin, pixelVars,
                   sensorVars, rx, out, pc, moveTarget, cur, prev, sent>>

\* one pass of the while loop of loop(): parseInt, the switch, the flush.
\* The pipette commands that block continue in the actions below.
Dispatch ==
    /\ pc = "idle"
    /\ rx # <<>>
    /\ LET p == ParseInt(rx)
           command == p.value
       IN
       CASE command = CMD_WHITE_ON ->
              /\ ring' = [marks |-> "white", rest |-> "white"]
              /\ StartCommand(command, TRUE)
              /\ EndCommand(<<ResponseLine(RESP_WHITE_ON, TRUE)>>)
              /\ UNCHANGED <<pipetteVars, stepperVars, limitState, emagPin, dots,
                             sensorVars, moveTarget>>
         [] command = CMD_WHITE_OFF ->
              /\ ring' = [marks |-> "off", rest |-> "off"]
              /\ StartCommand(command, TRUE)
              /\ EndCommand(<<ResponseLine(RESP_WHITE_OFF, TRUE)>>)
              /\ UNCHANGED <<pipetteVars, stepperVars, limitState, emagPin, dots,
                             sensorVars, moveTarget>>
         [] command = CMD_CONTACT_ON ->
              LET d == [d1 |-> NeoStore(255), d2 |-> NeoStore(255)]
                  ok == verifyNeoPixelState(d.d1, 255) /\ verifyNeoPixelState(d.d2, 255)
              IN /\ dots' = d
                 /\ ring' = [ring EXCEPT !.marks = "blue"]
                 /\ StartCommand(command, ok)
                 /\ EndCommand(<<ResponseLine(RESP_CONTACT_ON, ok)>>)
                 /\ UNCHANGED <<pipetteVars, stepperVars, limitState, emagPin,
                                sensorVars, moveTarget>>
         [] command = CMD_CONTACT_OFF ->
              LET d == [d1 |-> 0, d2 |-> 0]
                  ok == verifyNeoPixelState(d.d1, 0) /\ verifyNeoPixelState(d.d2, 0)
              IN /\ dots' = d
                 /\ ring' = [marks |-> "off", rest |-> "off"]
                 /\ StartCommand(command, ok)
                 /\ EndCommand(<<ResponseLine(RESP_CONTACT_OFF, ok)>>)
                 /\ UNCHANGED <<pipetteVars, stepperVars, limitState, emagPin,
                                sensorVars, moveTarget>>
         [] command = CMD_EMAG_ON ->
              /\ emagPin' = "HIGH"
              /\ StartCommand(command, verifyPinState("HIGH", "HIGH"))
              /\ EndCommand(<<ResponseLine(RESP_EMAG_ON, verifyPinState("HIGH", "HIGH"))>>)
              /\ UNCHANGED <<pipetteVars, stepperVars, limitState, pixelVars,
                             sensorVars, moveTarget>>
         [] command = CMD_EMAG_OFF ->
              /\ emagPin' = "LOW"
              /\ StartCommand(command, verifyPinState("LOW", "LOW"))
              /\ EndCommand(<<ResponseLine(RESP_EMAG_OFF, verifyPinState("LOW", "LOW"))>>)
              /\ UNCHANGED <<pipetteVars, stepperVars, limitState, pixelVars,
                             sensorVars, moveTarget>>
         [] command = CMD_LINE_BREAK ->
              /\ \E reading \in {"LOW", "HIGH"} :
                    EndCommand(<<IF reading = "LOW" THEN "107" ELSE "108">>)
              /\ StartCommand(command, TRUE)
              /\ UNCHANGED <<pipetteVars, stepperVars, limitState, emagPin, pixelVars,
                             sensorVars, moveTarget>>
         [] command = CMD_LINE_TEST ->
              /\ \E r \in BeamReadings :
                    LET t == LineTestFrom(1, r, lastState, <<>>) IN
                    /\ sensorState' = t.last
                    /\ lastState' = t.last
                    /\ lineBreakLed' = (IF t.last = "LOW" THEN "HIGH" ELSE "LOW")
                    /\ dots' = (IF t.last = "LOW"
                                THEN [d1 |-> NeoStore(255), d2 |-> NeoStore(255)]
                                ELSE [d1 |-> 0, d2 |-> 0])
                    /\ EndCommand(t.out)
              /\ StartCommand(command, TRUE)
              /\ UNCHANGED <<pipetteVars, stepperVars, limitState, emagPin, ring,
                             moveTarget>>
         [] command = CMD_PIPETTE_HOME ->
              /\ LimitSwitchLoop
              /\ stepperMaxSpeed' = PIPETTE_HOMING_SPEED
              /\ out' = <<"Homing pipette...">>
              /\ rx' = p.rest
              /\ pc' = "home1"
              /\ StartCommand(command, FALSE)
              /\ UNCHANGED <<pipetteVars, stepperPos, stepperTarget, stepperMoving,
                             emagPin, pixelVars, sensorVars, moveTarget>>
         [] command \in {CMD_PIPETTE_MOVE, CMD_PIPETTE_ASPIRATE, CMD_PIPETTE_DISPENSE} ->
              /\ out' = <<>>
              /\ rx' = p.rest
              /\ pc' = "payload"
              /\ StartCommand(command, FALSE)
              /\ UNCHANGED <<pipetteVars, stepperVars, limitState, emagPin, pixelVars,
                             sensorVars, moveTarget>>
         [] command = CMD_PIPETTE_STATUS ->
              /\ StartCommand(command, TRUE)
              /\ EndCommand(StatusLines(pipetteIsHomed, pipettePosition, pipetteVolume))
              /\ UNCHANGED <<pipetteVars, stepperVars, limitState, emagPin, pixelVars,
                             sensorVars, moveTarget>>
         [] command = CMD_HELLO ->
              /\ StartCommand(command, TRUE)
              /\ EndCommand(<<"999">>)
              /\ UNCHANGED <<pipetteVars, stepperVars, limitState, emagPin, pixelVars,
                             sensorVars, moveTarget>>
         [] OTHER ->
              /\ StartCommand(command, FALSE)
              /\ EndCommand(SentinelLines(command))
              /\ UNCHANGED <<pipetteVars, stepperVars, limitState, emagPin, pixelVars,
                             sensorVars, moveTarget>>
    /\ UNCHANGED sent

\* steps of the homing approaches and of the back-off
HOME_APPROACH_STEPS == 100
HOME_BACKOFF_STEPS == 100
HOME_REAPPROACH_STEPS == 10

\* the float each pipette operation hands to movePipetteToPosition
TargetOf(command, position, volume) ==
    CASE command = CMD_PIPETTE_MOVE -> volume
      [] command = CMD_PIPETTE_ASPIRATE -> AspirateTarget(position, volume)
      [] OTHER -> DispenseTarget(position, volume)

\* the diagnostic with which the operation returns false, "" when it moves
ErrorOf(command, homed, position, held, volume) ==
    CASE command = CMD_PIPETTE_MOVE -> MoveError(homed, volume)
      [] command = CMD_PIPETTE_ASPIRATE -> AspirateError(homed, position, volume)
      [] OTHER -> DispenseError(homed, position, held, volume)

\* cases 10, 11, 12 of the switch, from the wait for a payload byte: parseFloat,
\* then the operation up to pipetteStepper.moveTo, or its failure response
ReadPayload ==
    /\ pc = "payload"
    /\ rx # <<>>
    /\ LET p == ParseFloat(rx)
           err == ErrorOf(cur.cmd, pipetteIsHomed, pipettePosition, pipetteVolume, p.value)
           target == TargetOf(cur.cmd, pipettePosition, p.value)
       IN /\ cur' = [cur EXCEPT !.arg = p.value]
          /\ IF err # ""
             THEN /\ EndCommand(<<err, ResponseLine(ResponseCode(cur.cmd), FALSE)>>)
                  /\ UNCHANGED <<stepperTarget, moveTarget>>
             ELSE /\ stepperTarget' = MmToSteps(target)
                  /\ moveTarget' = target
                  /\ pc' = "moving"
                  /\ rx' = p.rest
                  /\ UNCHANGED out
    /\ UNCHANGED <<pipetteVars, stepperPos, stepperMoving, stepperMaxSpeed, limitState,
                   emagPin, pixelVars, sensorVars, prev, sent>>

\* while (pipetteStepper.distanceToGo() != 0) pipetteStepper.run(): from rest the
\* actuator gets half way, in motion it arrives
StepperRun ==
    /\ pc \in {"moving", "backoff"}
    /\ stepperPos # stepperTarget
    /\ IF ~stepperMoving /\ Abs(stepperTarget - stepperPos) > 1
       THEN /\ stepperPos' = stepperPos + (stepperTarget - stepperPos) \div 2
            /\ stepperMoving' = TRUE
       ELSE /\ stepperPos' = stepperTarget
            /\ stepperMoving' = FALSE
    /\ UNCHANGED <<pipetteVars, stepperTarget, stepperMaxSpeed, limitState, emagPin,
                   pixelVars, sensorVars, rx, out, pc, moveTarget, cur, prev, sent>>

\* pipetteVolume after the move of the command has succeeded
VolumeAfter(command, held, volume) ==
    CASE command = CMD_PIPETTE_ASPIRATE -> AspirateVolume(held, volume)
      [] command = CMD_PIPETTE_DISPENSE -> DispenseVolume(held, volume)
      [] OTHER -> held

\* the move has settled: movePipetteToPosition updates the position and returns
\* true, the caller books the volume and sends its response, the buffer is flushed
MoveDone ==
    /\ pc = "moving"
    /\ stepperPos = stepperTarget
    /\ pipettePosition' = moveTarget
    /\ pipetteVolume' = VolumeAfter(cur.cmd, pipetteVolume, cur.arg)
    /\ cur' = [cur EXCEPT !.ok = TRUE]
    /\ EndCommand(Append(out, ResponseLine(ResponseCode(cur.cmd), TRUE)))
    /\ UNCHANGED <<pipetteIsHomed, stepperVars, limitState, emagPin, pixelVars,
                   sensorVars, moveTarget, prev, sent>>

\* pipetteStepper.run() inside a homing approach: at most one step, and none once
\* the actuator has travelled MaxHomeSteps
HomeRunStep(step) ==
    /\ step = 1 => stepperPos - MmToSteps(pipettePosition) < MaxHomeSteps
    /\ stepperPos' = stepperPos + step
    /\ stepperMoving' = (stepperMoving \/ step = 1)

\* a first approach that marks the pipette as not homed while it searches the switch
HomeApproachClearsHomed ==
    /\ pc = "home1"
    /\ pipetteIsHomed' = FALSE
    /\ IF limitState = "HIGH"
       THEN /\ stepperTarget' = stepperPos + HOME_APPROACH_STEPS
            /\ \E step \in {0, 1} : HomeRunStep(step)
            /\ LimitSwitchLoop
            /\ UNCHANGED pc
       ELSE /\ stepperTarget' = stepperPos - HOME_BACKOFF_STEPS
            /\ pc' = "backoff"
            /\ UNCHANGED <<stepperPos, stepperMoving, limitState>>
    /\ UNCHANGED <<pipettePosition, pipetteVolume, stepperMaxSpeed, emagPin, pixelVars,
                   sensorVars, rx, out, moveTarget, cur, prev, sent>>

\* homePipette, first approach: one pass of the loop, or its exit into the back-off
HomeApproach ==
    /\ pc = "home1"
    /\ IF limitState = "HIGH"
       THEN /\ stepperTarget' = stepperPos + HOME_APPROACH_STEPS
            /\ \E step \in {0, 1} : HomeRunStep(step)
            /\ LimitSwitchLoop
            /\ UNCHANGED pc
       ELSE /\ stepperTarget' = stepperPos - HOME_BACKOFF_STEPS
            /\ pc' = "backoff"
            /\ UNCHANGED <<stepperPos, stepperMoving, limitState>>
    /\ UNCHANGED <<pipetteVars, stepperMaxSpeed, emagPin, pixelVars, sensorVars, rx, out,
                   moveTarget, cur, prev, sent>>

\* homePipette: the back-off has settled, lower the speed for the second approach
BackoffDone ==
    /\ pc = "backoff"
    /\ stepperPos = stepperTarget
    /\ stepperMaxSpeed' = PIPETTE_HOMING_SPEED \div 2
    /\ pc' = "home2"
    /\ UNCHANGED <<pipetteVars, stepperPos, stepperTarget, stepperMoving, limitState,
                   emagPin, pixelVars, sensorVars, rx, out, moveTarget, cur, prev, sent>>

\* a safe starting position of 5 mm
HomeSafePositionFive == 5 * FloatScale

\* the safe starting position movePipetteToPosition(0.5) of homePipette
HomeSafePosition == FloatScale \div 2

\* homePipette, second approach: one pass of the loop, or its exit: zero is set,
\* the pipette is homed and the move to the safe position starts
HomeReapproach ==
    /\ pc = "home2"
    /\ IF limitState = "HIGH"
       THEN /\ stepperTarget' = stepperPos + HOME_REAPPROACH_STEPS
            /\ \E step \in {0, 1} : HomeRunStep(step)
            /\ LimitSwitchLoop
            /\ UNCHANGED <<pipetteVars, stepperMaxSpeed, pc, moveTarget, out, rx, cur>>
       ELSE /\ pipettePosition' = 0
            /\ pipetteVolume' = 0
            /\ pipetteIsHomed' = TRUE
            /\ stepperPos' = 0
            /\ stepperMoving' = FALSE
            /\ stepperMaxSpeed' = PIPETTE_MAX_SPEED
            /\ UNCHANGED limitState
            /\ IF MoveError(TRUE, HomeSafePosition) = ""
               THEN /\ stepperTarget' = MmToSteps(HomeSafePosition)
                    /\ moveTarget' = HomeSafePosition
                    /\ pc' = "moving"
                    /\ UNCHANGED <<out, rx, cur>>
               ELSE /\ stepperTarget' = 0
                    /\ cur' = [cur EXCEPT !.ok = TRUE]
                    /\ EndCommand(<<out[1], MoveError(TRUE, HomeSafePosition),
                                    ResponseLine(RESP_PIPETTE_HOMED, TRUE)>>)
                    /\ UNCHANGED moveTarget
    /\ UNCHANGED <<emagPin, pixelVars, sensorVars, prev, sent>>

\* the firmware's steps
Firmware ==
    \/ IdleLoop
    \/ Dispatch
    \/ ReadPayload
    \/ StepperRun
    \/ MoveDone
    \/ HomeApproach
    \/ BackoffDone
    \/ HomeReapproach

\* the firmware with a host that sends anything at any time
Next == HostSend \/ Firmware

Spec == Init /\ [][Next]_vars

\* the firmware with a host that follows the request / payload protocol
NextPipette == HostCommand \/ HostPayload \/ Firmware

SpecPipette == Init /\ [][NextPipette]_vars

\* the firmware with a protocol-following host whose payloads are finer than a step
NextFine == HostCommand \/ HostFinePayload \/ Firmware

SpecFine == Init /\ [][NextFine]_vars

\* a pass of a homing approach loop in which the limit switch reads triggered
SwitchTriggers == (HomeApproach \/ HomeReapproach) /\ limitState' = "LOW"

\* the statement the firmware is at: the steps exclude one another by pc, and in a
\* homing approach loop the step is a pass in which the switch reads triggered
Progress ==
    \/ Dispatch
    \/ ReadPayload
    \/ StepperRun
    \/ MoveDone
    \/ BackoffDone
    \/ SwitchTriggers

\* loop() is the only thread and runs for ever: the statement the firmware is at
\* is executed; the limit switch triggers in some pass of an approach loop
Fairness == WF_vars(Progress)

NextLive == HostSendLive \/ Firmware

\* the running firmware with a host that sends at any time
SpecLive == Init /\ [][NextLive]_vars /\ Fairness

(***************************************************************************)
(* Properties.                                                             *)
(***************************************************************************)
MotionCommands == {CMD_PIPETTE_MOVE, CMD_PIPETTE_ASPIRATE, CMD_PIPETTE_DISPENSE}

\* cur is a command whose payload has been read
PayloadRead == cur.any /\ cur.cmd \in MotionCommands /\ pc \in {"idle", "moving"}

\* cur is a command that has been serviced to its end
Serviced == cur.any /\ pc = "idle"

\* PipetteState and the actuator are as the command cur found them
PipetteUntouched ==
    /\ pipetteIsHomed = cur.s0.homed
    /\ pipettePosition = cur.s0.pos
    /\ pipetteVolume = cur.s0.vol
    /\ stepperTarget = cur.s0.target
    /\ stepperPos = cur.s0.steps

\* the failure response of each motion command, as the host reads it
ErrLine(command) ==
    CASE command = CMD_PIPETTE_MOVE -> "ERR:110"
      [] command = CMD_PIPETTE_ASPIRATE -> "ERR:111"
      [] OTHER -> "ERR:112"

\* the last line the command has printed
LastLine == IF out = <<>> THEN "" ELSE out[Len(out)]

\* C1: while the pipette is not homed, a Move, Aspirate or Dispense with any
\* payload never starts a motion and, once serviced, has answered ERR:110 /
\* ERR:111 / ERR:112 and left isHomed (false), positionMm, volumeUl and the
\* actuator as they were.
C1_UnhomedMotionFails ==
    (cur.any /\ cur.cmd \in MotionCommands /\ ~cur.s0.homed) =>
        /\ pc \in {"payload", "idle"}
        /\ PipetteUntouched
        /\ ~pipetteIsHomed
        /\ pc = "idle" =>
              /\ ~cur.ok
              /\ out = <<"ERROR: Pipette not homed", ErrLine(cur.cmd)>>

\* an Aspirate of 600 uL was refused before any homing
C1_Witness ==
    /\ Serviced
    /\ cur.cmd = CMD_PIPETTE_ASPIRATE
    /\ cur.arg = 600 * FloatScale
    /\ ~cur.s0.homed
    /\ LastLine = "ERR:111"

\* C2: in the homed state a Move(t) with 0 <= t <= MAX_POSITION_MM, once
\* serviced, has answered OK:110, left positionMm = t and left volumeUl and
\* isHomed as they were (so a Move to the current position changes nothing).
C2_MoveInRange ==
    (Serviced /\ cur.cmd = CMD_PIPETTE_MOVE /\ cur.s0.homed
       /\ 0 <= cur.arg /\ cur.arg <= MaxPositionF) =>
        /\ cur.ok
        /\ out = <<"OK:110">>
        /\ pipettePosition = cur.arg
        /\ pipetteVolume = cur.s0.vol
        /\ pipetteIsHomed
        /\ stepperPos = MmToSteps(cur.arg)

\* a Move to the current position, with liquid held, has succeeded
C2_Witness ==
    /\ Serviced
    /\ cur.cmd = CMD_PIPETTE_MOVE
    /\ cur.s0.homed
    /\ cur.arg = cur.s0.pos
    /\ cur.s0.vol # 0
    /\ cur.ok
    /\ pipettePosition = cur.s0.pos

\* C3: a Dispense(v) serviced right after a successful Aspirate(v) has succeeded
\* and has restored positionMm and volumeUl to their values before the Aspirate.
C3_AspirateDispenseRestores ==
    (Serviced /\ cur.cmd = CMD_PIPETTE_DISPENSE /\ prev.any
       /\ prev.cmd = CMD_PIPETTE_ASPIRATE /\ prev.ok /\ cur.arg = prev.arg) =>
        /\ cur.ok
        /\ pipettePosition = prev.pos0
        /\ pipetteVolume = prev.vol0

\* C4: in the homed state a Dispense(v) with v > volumeUl or positionMm - v/10 < 0,
\* and an Aspirate(v) with positionMm + v/10 > MAX_POSITION_MM, never start a
\* motion and, once serviced, have answered ERR:112 / ERR:111 and left
\* positionMm, volumeUl, isHomed and the actuator as they were.
C4_RefusedVolume ==
    (PayloadRead /\ cur.s0.homed
       /\ \/ /\ cur.cmd = CMD_PIPETTE_DISPENSE
             /\ (cur.arg > cur.s0.vol \/ 10 * cur.s0.pos - cur.arg < 0)
          \/ /\ cur.cmd = CMD_PIPETTE_ASPIRATE
             /\ 10 * cur.s0.pos + cur.arg > 10 * MaxPositionF) =>
        /\ pc = "idle"
        /\ ~cur.ok
        /\ Len(out) = 2
        /\ out[2] = ErrLine(cur.cmd)
        /\ PipetteUntouched

\* a Dispense of a volume that is held, but would take the plunger below zero,
\* was refused
C4_Witness ==
    /\ Serviced
    /\ cur.cmd = CMD_PIPETTE_DISPENSE
    /\ cur.s0.homed
    /\ cur.arg <= cur.s0.vol
    /\ 10 * cur.s0.pos - cur.arg < 0
    /\ LastLine = "ERR:112"

\* C5: in the homed state a Move(t) with t < 0 or t > MAX_POSITION_MM never
\* starts a motion and, once serviced, has answered ERR:110 and left positionMm,
\* volumeUl, isHomed and the actuator as they were.
C5_MoveOutOfRange ==
    (PayloadRead /\ cur.cmd = CMD_PIPETTE_MOVE /\ cur.s0.homed
       /\ (cur.arg < 0 \/ cur.arg > MaxPositionF)) =>
        /\ pc = "idle"
        /\ ~cur.ok
        /\ out = <<"ERROR: Position out of bounds", "ERR:110">>
        /\ PipetteUntouched

\* a Move below zero was refused with liquid held
C5_Witness ==
    /\ Serviced
    /\ cur.cmd = CMD_PIPETTE_MOVE
    /\ cur.s0.homed
    /\ cur.arg < 0
    /\ cur.s0.vol > 0
    /\ LastLine = "ERR:110"

\* C6: a command code outside {1..13, 99} (0 when no digit was read) prints the
\* single line -1 and changes neither PipetteState nor any output (electromagnet
\* pin, indicator LED, pixel devices, actuator).
C6_UnrecognizedCode ==
    (Serviced /\ cur.cmd \notin RecognizedCodes) =>
        /\ out = <<"-1">>
        /\ Snapshot = cur.s0

\* a message without a digit was answered -1 with the electromagnet on
C6_Witness ==
    /\ Serviced
    /\ cur.cmd = 0
    /\ emagPin = "HIGH"
    /\ out = <<"-1">>

\* C7: a Home command, from any state, once serviced has left isHomed = true,
\* positionMm = 0.5 and volumeUl = 0 and has answered OK:109; a Status command
\* serviced next prints STATUS:1,0.50,0.00 and then OK:113.
C7_HomeThenStatus ==
    /\ (Serviced /\ cur.cmd = CMD_PIPETTE_HOME) =>
          /\ pipetteIsHomed
          /\ 2 * pipettePosition = FloatScale
          /\ pipetteVolume = 0
          /\ cur.ok
          /\ out = <<"Homing pipette...", "OK:109">>
    /\ (Serviced /\ cur.cmd = CMD_PIPETTE_STATUS /\ prev.any
          /\ prev.cmd = CMD_PIPETTE_HOME) =>
          out = <<"STATUS:1,0.50,0.00", "OK:113">>

\* a Status was serviced right after a Home that started with liquid held
C7_Witness ==
    /\ Serviced
    /\ cur.cmd = CMD_PIPETTE_STATUS
    /\ prev.any
    /\ prev.cmd = CMD_PIPETTE_HOME
    /\ prev.vol0 # 0
    /\ prev.pos0 # 0
    /\ Len(out) = 2

\* C8: whenever the pipette is homed and no command is executing,
\* 0 <= positionMm <= MAX_POSITION_MM.
C8_PositionInRange ==
    (pc = "idle" /\ pipetteIsHomed) =>
        (0 <= pipettePosition /\ pipettePosition <= MaxPositionF)

\* a Dispense of a negative volume has succeeded and moved the plunger up
C8_Witness ==
    /\ Serviced
    /\ pipetteIsHomed
    /\ cur.cmd = CMD_PIPETTE_DISPENSE
    /\ cur.arg < 0
    /\ cur.ok
    /\ pipettePosition > cur.s0.pos

\* C9: volumeUl >= 0 in every reachable state.
C9_VolumeNonNegative == pipetteVolume >= 0

\* C10: volumeUl never exceeds the capacity MAX_POSITION_MM x 10 uL/mm.
C10_VolumeWithinCapacity == pipetteVolume <= 10 * MaxPositionF

\* the line that ends the response of a command: OK:/ERR:<100+c> of the command
\* table, the bare lines of 7 and 99, the last reading of the sensor test, -1
FinalLines(command) ==
    CASE command \in (1..6) \cup (9..13) ->
            {"OK:" \o ToString(100 + command), "ERR:" \o ToString(100 + command)}
      [] command = CMD_LINE_BREAK -> {"107", "108"}
      [] command = CMD_LINE_TEST -> {"107", "108", "beam roken", "beam unbroken"}
      [] command = CMD_HELLO -> {"999"}
      [] OTHER -> {"-1"}

\* the response of the command cur is out, to its last line
ResponseComplete == out # <<>> /\ LastLine \in FinalLines(cur.cmd)

\* the step reads a command code: the records of the commands move on
ReadsCommand ==
    \/ ~cur.any /\ cur'.any
    \/ cur'.cmd # cur.cmd
    \/ cur'.s0 # cur.s0
    \/ prev' # prev

\* C11: commands are serviced one at a time: a command code is read only while no
\* handler is active and after the complete response of the command read before
\* it is out; a step that ends a handler leaves the response of that very
\* command, so the responses come in the order of the codes read.
C11_OneAtATime ==
    [][ /\ ReadsCommand => (pc = "idle" /\ (cur.any => ResponseComplete))
        /\ (pc # "idle" /\ pc' = "idle") =>
              (cur'.cmd = cur.cmd /\ out' # <<>> /\ out'[Len(out')] \in FinalLines(cur.cmd))
      ]_vars

\* a command has been read and answered after a blocking Home had been answered
C11_Witness ==
    /\ Serviced
    /\ prev.any
    /\ prev.cmd = CMD_PIPETTE_HOME
    /\ prev.ok
    /\ cur.cmd = CMD_WHITE_ON
    /\ out = <<"OK:101">>

\* C12: for the codes 10, 11 and 12 the dispatcher leaves its wait for the payload
\* only when a float token sent by the host is in the receive buffer (a digit,
\* a sign or a decimal point): no handler is invoked and no response is printed
\* on the delimiter of the command code alone.
C12_WaitsForPayload ==
    [][(pc = "payload" /\ pc' # "payload") => SkipToNumeric(rx, TRUE) # <<>>]_vars

\* the tagged line of command c in the command table
TagLine(command, success) ==
    (IF success THEN "OK:" ELSE "ERR:") \o ToString(100 + command)

TaggedLines == { TagLine(c, ok) : c \in 1..13, ok \in BOOLEAN }

\* the commands that answer with a tagged line
TaggedCommands == ((1..6) \cup (9..13))

\* what the tag of the command cur is to say: the success of the pipette
\* operation, the read-back of the value written, or always OK
ExpectedTag ==
    CASE cur.cmd \in MotionCommands -> cur.ok
      [] cur.cmd = CMD_CONTACT_ON -> NeoRead(dots.d1) = 255 /\ NeoRead(dots.d2) = 255
      [] cur.cmd = CMD_CONTACT_OFF -> NeoRead(dots.d1) = 0 /\ NeoRead(dots.d2) = 0
      [] cur.cmd = CMD_EMAG_ON -> emagPin = "HIGH"
      [] cur.cmd = CMD_EMAG_OFF -> emagPin = "LOW"
      [] OTHER -> TRUE

\* C13: a serviced command with code c in {1..6, 9..13} has printed exactly one
\* tagged line, its last, OK:<100+c> or ERR:<100+c>: OK exactly when the pipette
\* operation succeeded (10, 11, 12), when the read-back equals the value written
\* (3, 4, 5, 6), and always for 1, 2, 9, 13; code 7 has printed the bare line 107
\* or 108 and code 99 the bare line 999.
C13_ResponseTable ==
    Serviced =>
        /\ cur.cmd \in TaggedCommands =>
              /\ Cardinality({i \in 1..Len(out) : out[i] \in TaggedLines}) = 1
              /\ LastLine = TagLine(cur.cmd, ExpectedTag)
        /\ cur.cmd = CMD_LINE_BREAK => out \in {<<"107">>, <<"108">>}
        /\ cur.cmd = CMD_HELLO => out = <<"999">>

\* the contact dots were switched on, read back dimmer than written, and the
\* command answered ERR:103
C13_Witness ==
    /\ Serviced
    /\ cur.cmd = CMD_CONTACT_ON
    /\ NeoRead(dots.d1) # 255
    /\ out = <<"ERR:103">>

\* the step of homePipette that defines position zero
DefinesZero == pc = "home2" /\ pc' # "home2"

\* C14: when Home defines position zero, the second approach has run after the
\* back-off: the actuator is no longer at rest where the back-off ended but under
\* a re-approach move towards the switch (move(10) pending), so that zero is the
\* point of a second trigger.
C14_ZeroAtSecondTrigger ==
    [][DefinesZero => stepperTarget > stepperPos]_vars

\* C15: isHomed is false at the start, becomes true only in a Home command (at
\* the step of homePipette that defines zero), and no step of any command,
\* successful or failed, sets it back to false.
C15_HomedMonotone ==
    /\ ~pipetteIsHomed
    /\ [][ /\ pipetteIsHomed => pipetteIsHomed'
           /\ (~pipetteIsHomed /\ pipetteIsHomed') =>
                 (cur.cmd = CMD_PIPETTE_HOME /\ pc = "home2")
         ]_vars

\* a repeated Home is searching the switch, and a Move out of range has failed,
\* with the pipette still homed
C15_Witness ==
    /\ pipetteIsHomed
    /\ pc = "home1"
    /\ prev.any
    /\ prev.cmd = CMD_PIPETTE_MOVE
    /\ ~prev.ok
    /\ prev.arg > MaxPositionF

\* C16: volumeUl is the volume the command found, plus v once an Aspirate(v) has
\* succeeded, minus v once a Dispense(v) has succeeded, and 0 once a Home has
\* defined zero; a failed Aspirate or Dispense, a Move and every other command
\* leave it as it was, and no command touches it before its motion has ended.
C16_VolumeAccounting ==
    /\ ~cur.any => pipetteVolume = 0
    /\ Serviced =>
          pipetteVolume =
             CASE cur.cmd = CMD_PIPETTE_ASPIRATE /\ cur.ok -> cur.s0.vol + cur.arg
               [] cur.cmd = CMD_PIPETTE_DISPENSE /\ cur.ok -> cur.s0.vol - cur.arg
               [] cur.cmd = CMD_PIPETTE_HOME -> 0
               [] OTHER -> cur.s0.vol
    /\ (cur.any /\ pc # "idle") =>
          \/ pipetteVolume = cur.s0.vol
          \/ cur.cmd = CMD_PIPETTE_HOME /\ pc = "moving" /\ pipetteVolume = 0

\* a Dispense has succeeded and left a part of the volume held
C16_Witness ==
    /\ Serviced
    /\ cur.cmd = CMD_PIPETTE_DISPENSE
    /\ cur.ok
    /\ cur.arg > 0
    /\ pipetteVolume > 0
    /\ pipetteVolume = cur.s0.vol - cur.arg

\* C17 as stated: whenever the pipette is homed and no command is executing, the
\* step position of the actuator equals positionMm x STEPS_PER_MM.
C17_StepsEqualPosition ==
    (pc = "idle" /\ pipetteIsHomed) =>
        stepperPos * FloatScale = pipettePosition * PIPETTE_STEPS_PER_MM

\* C17, amended: positionMm and volumeUl are updated, and the success response
\* is printed, only after the actuator has settled; whenever the pipette is homed
\* and no command is executing the actuator is at rest on its target, and its
\* step position is positionMm x STEPS_PER_MM truncated to a whole step.
C17_SettledTruncated ==
    /\ (pc = "idle" /\ pipetteIsHomed) =>
          /\ stepperPos = stepperTarget
          /\ stepperPos * FloatScale <= pipettePosition * PIPETTE_STEPS_PER_MM
          /\ pipettePosition * PIPETTE_STEPS_PER_MM < (stepperPos + 1) * FloatScale
    /\ (pc = "moving" /\ cur.cmd \in MotionCommands) =>
          /\ pipettePosition = cur.s0.pos
          /\ pipetteVolume = cur.s0.vol
          /\ out = <<>>
    /\ (pc = "moving" /\ cur.cmd = CMD_PIPETTE_HOME) =>
          /\ pipettePosition = 0
          /\ out = <<"Homing pipette...">>
    /\ (Serviced /\ cur.ok) => stepperPos = stepperTarget

\* a Move to a position between two steps has succeeded
C17_Witness ==
    /\ Serviced
    /\ pipetteIsHomed
    /\ cur.cmd = CMD_PIPETTE_MOVE
    /\ cur.ok
    /\ pipettePosition = cur.arg
    /\ stepperPos * FloatScale # pipettePosition * PIPETTE_STEPS_PER_MM

\* the commands that are not pipette operations
FrameCommands == (1..8) \cup {CMD_PIPETTE_STATUS, CMD_HELLO}

\* C18: a serviced command 1-8, 13 or 99 has left isHomed, positionMm, volumeUl
\* and the target of the actuator as it found them; a serviced Status has
\* answered OK:113, homed or not.
C18_FrameAndStatus ==
    (Serviced /\ cur.cmd \in FrameCommands) =>
        /\ pipetteIsHomed = cur.s0.homed
        /\ pipettePosition = cur.s0.pos
        /\ pipetteVolume = cur.s0.vol
        /\ stepperTarget = cur.s0.target
        /\ cur.cmd = CMD_PIPETTE_STATUS => (Len(out) = 2 /\ out[2] = "OK:113")

\* the sensor test has run with the pipette homed and the actuator at 0.5 mm
C18_Witness ==
    /\ Serviced
    /\ cur.cmd = CMD_LINE_TEST
    /\ cur.s0.homed
    /\ pipetteIsHomed
    /\ 2 * pipettePosition = FloatScale
    /\ stepperTarget # 0

\* the step ends the handler of a command (read in this step or earlier)
HandlerReturns == (pc # "idle" \/ ReadsCommand) /\ pc' = "idle"

\* C19: the step that ends the handler of any command, recognized or not,
\* successful or failed, leaves the receive buffer empty: every byte buffered at
\* that moment is discarded, and what is parsed as the next command code or
\* payload has arrived after it.
C19_FlushAfterHandler ==
    [][HandlerReturns => rx' = <<>>]_vars

\* the host has sent all its messages, the only command read is a Home, it has
\* been answered and nothing is left in the buffer: the bytes of the other
\* message were discarded
C19_Witness ==
    /\ Serviced
    /\ cur.cmd = CMD_PIPETTE_HOME
    /\ ~prev.any
    /\ sent = MaxMsgs
    /\ rx = <<>>

\* C20: with the actuator settling and the limit switch triggering, every command
\* code the dispatcher has read is followed by its complete response and by the
\* dispatcher's return to reading, and input that is buffered while the
\* dispatcher reads is read and serviced, whatever was answered before (an ERR
\* line or -1 included).
C20_AlwaysResponds ==
    /\ (pc # "idle") ~> (pc = "idle" /\ ResponseComplete)
    /\ (pc = "idle" /\ rx # <<>>) ~> (pc = "idle" /\ rx = <<>> /\ ResponseComplete)

\* a Move sent after an unrecognized code had been answered -1 was read and
\* answered ERR:110, and the dispatcher reads again
C20_Witness ==
    /\ Serviced
    /\ prev.any
    /\ prev.cmd \notin RecognizedCodes
    /\ cur.cmd = CMD_PIPETTE_MOVE
    /\ LastLine = "ERR:110"
    /\ rx = <<>>

====
